---- MODULE Spec2Model ----
(***************************************************************************)
(* Insurance-Quote-Processor: the risk-assessment core.                    *)
(*                                                                         *)
(*   quote_engine/risk_utils.py   get_long_lat, get_crimes_for_location,   *)
(*                                get_flood_data_for_location, scorers     *)
(*   quote_engine/riskservice.py  RiskService                              *)
(*   quote_engine/utils.py        log_api_call (retry + audit decorator)   *)
(*                                                                         *)
(* Four specifications share the module:                                   *)
(*   SpecCache  single calls of the three cached lookups, with a clock     *)
(*   Spec       RiskService.calculate_location_risks, step by step         *)
(*   SpecWrap   the wrapper of log_api_call around an arbitrary operation  *)
(*   SpecRisk   the pure functions of RiskService on bounded inputs        *)
(*                                                                         *)
(* Scores are rationals; a score value v of the model stands for v / 4     *)
(* points (every weight and multiplier of the scorers is a multiple of     *)
(* 1/4 after multiplication), so 100 points are 100 * ScoreScale.          *)
(***************************************************************************)
EXTENDS Integers, Sequences, FiniteSets, TLC

VARIABLES
    cache,      \* the Django cache: per key prefix, the entries [key, ver, val, exp]
    now,        \* the clock, in seconds
    fetched,    \* history: per key prefix, the last successful fetch of each key
    lastCall,   \* the last call of a lookup: what it was given, did and returned
    asmt,       \* the running calculate_location_risks call
    wrap,       \* the running call of the log_api_call wrapper
    risk,       \* the last evaluation of a pure RiskService function
    callers,    \* concurrent calls of one lookup: each caller's position and locals
    quotes      \* the Quote table and the submissions validated against it

vars == <<cache, now, fetched, lastCall, asmt, wrap, risk, callers, quotes>>

---------------------------------------------------------------------------
(* Bounds of the model *)

\* the clock advances at most this many times
MaxTicks == 2

\* the wrapper is built with max_retries in 0..MaxRetries
MaxRetries == 3

\* and with backoff_factor in 1..MaxBackoff
MaxBackoff == 3

\* risk_type is evaluated on the scores 0, 10, ..., 10 * MaxScoreTens points
MaxScoreTens == 10

---------------------------------------------------------------------------
(* Program constants *)

\* risk_utils.py:19  CACHE_TIMEOUT = 60 * 60 * 24
CACHE_TIMEOUT == 60 * 60 * 24

\* django.core.cache: the version a key gets when none is passed (VERSION = 1)
DEFAULT_VERSION == 1

\* get_flood_data_for_location(lat, long, dist = 50)
DEFAULT_DIST == 50

\* one clock step: half a cache lifetime
TickSeconds == CACHE_TIMEOUT \div 2

---------------------------------------------------------------------------
(* Python values *)

\* str.upper() on the characters the postcodes of the model are made of
Upper(ch) ==
    CASE ch = "e" -> "E"
      [] ch = "n" -> "N"
      [] OTHER -> ch

NotSpace(ch) == ch # " "

\* risk_postcode.replace(" ", "").upper()
NormalizePostcode(risk_postcode) ==
    LET stripped == SelectSeq(risk_postcode, NotSpace)
    IN  [i \in 1..Len(stripped) |-> Upper(stripped[i])]

\* the postcodes a caller may pass: two spellings of one code, another code,
\* and the empty string
Postcodes == { <<"e", " ", "1">>, <<"E", "1">>, <<"N", "2">>, <<>> }

\* where the lookup service places a (normalized) postcode: <<latitude, longitude>>
Location(norm) ==
    IF norm = <<"E", "1">> THEN <<51, -1>> ELSE <<52, 1>>

Coords == { <<51, -1>>, <<52, 1>> }

\* the coordinate the crime and flood lookups are called with on their own
LookupCoords == { <<51, -1>> }

\* timestamps as <<year, month, day>>; <<>> is the empty string
Timestamps == { <<2024, 1, 25>>, <<2024, 2, 30>>, <<>> }

IsLeap(y) == (y % 4 = 0 /\ y % 100 # 0) \/ y % 400 = 0

DaysInMonth(y, m) ==
    CASE m \in {4, 6, 9, 11} -> 30
      [] m = 2 -> IF IsLeap(y) THEN 29 ELSE 28
      [] OTHER -> 31

\* datetime.strptime(date_part, '%Y-%m-%d') succeeds
ValidDate(ts) ==
    /\ Len(ts) = 3
    /\ ts[2] \in 1..12
    /\ ts[3] \in 1..DaysInMonth(ts[1], ts[2])

\* parsed_date.strftime('%Y-%m')
NormalizedDate(ts) == <<ts[1], ts[2]>>

\* the crime datasets the police API may answer with (lists of records)
CrimeDatasets == { <<>>, <<[category |-> "burglary"], [category |-> "drugs"]>> }

\* the bodies the flood API may answer with: a dict with or without 'items'
FloodDatasets ==
    { [meta |-> "floods"],
      [meta |-> "floods", items |-> <<[severityLevel |-> 1, isTidal |-> TRUE]>>] }

\* truth value of a Python float, list, dict
TruthyNumber(v) == v # 0
TruthyList(v) == Len(v) > 0
TruthyDict(v) == DOMAIN v # {}

---------------------------------------------------------------------------
(* The Django cache: cache.get(key, version = None),                       *)
(* cache.set(key, value, timeout, version = None).                         *)

\* The keys of the program are strings with one of three prefixes; a key is
\* the tuple of its prefix and the values formatted into it, and the cache
\* holds the entries of each prefix apart.
Prefixes == {"postcode_cordinates", "crimes", "flood_risk"}

Prefix(key) == key[1]

EmptyCache == [p \in Prefixes |-> {}]

\* an entry is visible until its expiry time is reached
Live(entries, t) == { e \in entries : e.exp > t }

LiveCache(c, t) == [p \in Prefixes |-> Live(c[p], t)]

\* cache.get(key): the values under key (none or one), in the default version
CacheGet(c, t, key) ==
    { e.val : e \in { x \in Live(c[Prefix(key)], t) :
                        x.key = key /\ x.ver = DEFAULT_VERSION } }

\* cache.set(key, value, timeout, version): a timeout of 0 expires at once
CacheSet(c, t, key, value, timeout, version) ==
    [c EXCEPT ![Prefix(key)] =
        Live({ x \in @ : ~(x.key = key /\ x.ver = version) }
             \cup { [key |-> key, ver |-> version, val |-> value,
                     exp |-> t + (IF timeout = 0 THEN -1 ELSE timeout)] }, t)]

---------------------------------------------------------------------------
(* Upstream responses *)

\* requests.get raised requests.RequestException (network failure, timeout)
NetFail == "exception"
\* requests.get raised requests.exceptions.Timeout, a RequestException
Timeout == "timeout"
\* requests.get returned a response
Http == "http"

PostcodeResponses(risk_postcode) ==
    LET loc == Location(NormalizePostcode(risk_postcode))
    IN  [kind : {NetFail}, status : {0}, found : {FALSE}, latitude : {0}, longitude : {0}]
        \cup [kind : {Http}, status : {404}, found : {FALSE}, latitude : {0}, longitude : {0}]
        \cup [kind : {Http}, status : {200}, found : {FALSE}, latitude : {0}, longitude : {0}]
        \cup [kind : {Http}, status : {200}, found : {TRUE},
              latitude : {loc[1]}, longitude : {loc[2]}]

\* a response that is not a 200 carries no dataset the lookups read
CrimeResponses ==
    [kind : {NetFail, Timeout}, status : {0}, data : {<<>>}]
    \cup [kind : {Http}, status : {500}, data : {<<>>}]
    \cup [kind : {Http}, status : {200}, data : CrimeDatasets]

\* decode is what response.json() does with the body of a 200: "ok", or the
\* class of the JSONDecodeError the installed requests raises on a body that
\* is not JSON (a RequestException since requests 2.27, a ValueError before)
FloodResponses ==
    [kind : {NetFail, Timeout}, status : {0}, data : {[meta |-> "floods"]}, decode : {"ok"}]
    \cup [kind : {Http}, status : {500}, data : {[meta |-> "floods"]}, decode : {"ok"}]
    \cup [kind : {Http}, status : {200}, data : FloodDatasets, decode : {"ok"}]
    \cup [kind : {Http}, status : {200}, data : {[meta |-> "floods"]},
          decode : {"RequestException", "ValueError"}]

---------------------------------------------------------------------------
(* Outcomes of a call *)

\* err is the class of a raised exception, msg the texts its message is made
\* of, outermost first (formatted values left out)
Return(v) == [kind |-> "return", val |-> v, err |-> "", msg |-> <<>>]
ReturnNone == [kind |-> "none", val |-> <<>>, err |-> "", msg |-> <<>>]
RaiseMsg(e, msg) == [kind |-> "raise", val |-> <<>>, err |-> e, msg |-> msg]
Raise(e) == RaiseMsg(e, <<>>)

\* what a lookup did: its outcome, the keys it read with cache.get, the requests
\* it sent (each with the answer it got: exception or response, and status),
\* the cache.set calls it made, whether it was served from the cache,
\* and the cache it leaves
Did(out, gets, net, sets, hit, c) ==
    [out |-> out, gets |-> gets, net |-> net, sets |-> sets, hit |-> hit,
     cache |-> c]

SetCall(key, value, timeout, version) ==
    [key |-> key, val |-> value, timeout |-> timeout, ver |-> version]

---------------------------------------------------------------------------
(* risk_utils.py: the three cached lookups.  Each takes the cache, the     *)
(* time and the response the upstream would give if asked.                 *)

PostcodeKey(normalized_postcode) == <<"postcode_cordinates", normalized_postcode>>

\* get_long_lat(risk_postcode)
get_long_lat(c, t, risk_postcode, resp) ==
    LET normalized_postcode == NormalizePostcode(risk_postcode)
        cache_key == PostcodeKey(normalized_postcode)
        cached_coords == CacheGet(c, t, cache_key)
        \* the URL is built from risk_postcode as given
        request == [url |-> "api.postcodes.io/postcodes", arg |-> risk_postcode,
                    answer |-> <<resp.kind, resp.status>>]
    IN  IF \E v \in cached_coords : TruthyNumber(v)
        THEN Did(Return(CHOOSE v \in cached_coords : TRUE), <<cache_key>>, <<>>, <<>>, TRUE, c)
        ELSE IF resp.kind = NetFail
        THEN Did(RaiseMsg("ConnectionError", <<"Error retrieving location for postcode">>),
                 <<cache_key>>, <<request>>, <<>>, FALSE, c)
        ELSE IF resp.status = 200
        THEN IF resp.found
             THEN \* cache.set(cache_key, latitude, longitude, CACHE_TIMEOUT):
                  \* value latitude, timeout longitude, version CACHE_TIMEOUT
                  Did(Return(<<resp.latitude, resp.longitude>>), <<cache_key>>, <<request>>,
                      <<SetCall(cache_key, resp.latitude, resp.longitude, CACHE_TIMEOUT)>>,
                      FALSE,
                      CacheSet(c, t, cache_key, resp.latitude, resp.longitude,
                               CACHE_TIMEOUT))
             ELSE Did(ReturnNone, <<cache_key>>, <<request>>, <<>>, FALSE, c)
        ELSE Did(RaiseMsg("ValueError", <<"Could not get location for postcode">>),
                 <<cache_key>>, <<request>>, <<>>, FALSE, c)

CrimeKey(normalized_date, long, lat) == <<"crimes", normalized_date, long, lat>>

\* a crime client that caches an empty dataset when the request fails
get_crimes_caching_failure(c, t, timestamp, lat, long, resp) ==
    IF ~ValidDate(timestamp)
    THEN Did(RaiseMsg("ValueError", <<"Invalid date format">>), <<>>, <<>>, <<>>, FALSE, c)
    ELSE
    LET normalized_date == NormalizedDate(timestamp)
        cache_key == CrimeKey(normalized_date, long, lat)
        cached_crimes == CacheGet(c, t, cache_key)
        request == [url |-> "data.police.uk/api/crimes-at-location",
                    arg |-> <<normalized_date, lat, long>>,
                    answer |-> <<resp.kind, resp.status>>]
    IN  IF \E v \in cached_crimes : TruthyList(v)
        THEN Did(Return(CHOOSE v \in cached_crimes : TRUE), <<cache_key>>, <<>>, <<>>, TRUE, c)
        ELSE IF resp.kind \in {NetFail, Timeout}
        THEN Did(RaiseMsg("ConnectionError", <<"Error retrieving crime data for location">>),
                 <<cache_key>>, <<request>>,
                 <<SetCall(cache_key, <<>>, CACHE_TIMEOUT, DEFAULT_VERSION)>>,
                 FALSE,
                 CacheSet(c, t, cache_key, <<>>, CACHE_TIMEOUT, DEFAULT_VERSION))
        ELSE IF resp.status = 200
        THEN Did(Return(resp.data), <<cache_key>>, <<request>>,
                 <<SetCall(cache_key, resp.data, CACHE_TIMEOUT, DEFAULT_VERSION)>>,
                 FALSE,
                 CacheSet(c, t, cache_key, resp.data, CACHE_TIMEOUT, DEFAULT_VERSION))
        ELSE Did(RaiseMsg("ValueError", <<"Invalid date format">>),
                 <<cache_key>>, <<request>>, <<>>, FALSE, c)

\* get_crimes_for_location(timestamp, lat, long)
get_crimes_for_location(c, t, timestamp, lat, long, resp) ==
    IF ~ValidDate(timestamp)
    THEN \* strptime raises ValueError, re-raised as ValueError("Invalid date format")
         Did(RaiseMsg("ValueError", <<"Invalid date format">>), <<>>, <<>>, <<>>, FALSE, c)
    ELSE
    LET normalized_date == NormalizedDate(timestamp)
        cache_key == CrimeKey(normalized_date, long, lat)
        cached_crimes == CacheGet(c, t, cache_key)
        request == [url |-> "data.police.uk/api/crimes-at-location",
                    arg |-> <<normalized_date, lat, long>>,
                    answer |-> <<resp.kind, resp.status>>]
    IN  IF \E v \in cached_crimes : TruthyList(v)
        THEN Did(Return(CHOOSE v \in cached_crimes : TRUE), <<cache_key>>, <<>>, <<>>, TRUE, c)
        ELSE IF resp.kind \in {NetFail, Timeout}
        THEN Did(RaiseMsg("ConnectionError", <<"Error retrieving crime data for location">>),
                 <<cache_key>>, <<request>>, <<>>, FALSE, c)
        ELSE IF resp.status = 200
        THEN Did(Return(resp.data), <<cache_key>>, <<request>>,
                 <<SetCall(cache_key, resp.data, CACHE_TIMEOUT, DEFAULT_VERSION)>>,
                 FALSE,
                 CacheSet(c, t, cache_key, resp.data, CACHE_TIMEOUT, DEFAULT_VERSION))
        ELSE \* the ValueError("Could not get crimes ...") of line 115 is caught by
             \* except ValueError (line 120), which raises the date-format error
             Did(RaiseMsg("ValueError", <<"Invalid date format">>),
                 <<cache_key>>, <<request>>, <<>>, FALSE, c)

FloodKey(lat, long, dist) == <<"flood_risk", lat, long, dist>>

\* get_flood_data_for_location(lat, long, dist = 50)
get_flood_data_for_location(c, t, lat, long, dist, resp) ==
    LET cache_key == FloodKey(lat, long, dist)
        cached_coords == CacheGet(c, t, cache_key)
        request == [url |-> "environment.data.gov.uk/flood-monitoring/id/floods",
                    arg |-> <<lat, long, dist>>,
                    answer |-> <<resp.kind, resp.status, resp.decode>>]
    IN  IF \E v \in cached_coords : TruthyDict(v)
        THEN Did(Return(CHOOSE v \in cached_coords : TRUE), <<cache_key>>, <<>>, <<>>, TRUE, c)
        ELSE IF resp.kind \in {NetFail, Timeout}
        THEN \* Timeout and ConnectionError are RequestExceptions: the clause of
             \* line 181 catches them before the clauses of lines 184 and 186
             Did(RaiseMsg("ConnectionError", <<"Error fetching flood data for location">>),
                 <<cache_key>>, <<request>>, <<>>, FALSE, c)
        ELSE IF resp.status # 200
        THEN \* raise_for_status(): HTTPError is a RequestException (line 181)
             Did(RaiseMsg("ConnectionError", <<"Error fetching flood data for location">>),
                 <<cache_key>>, <<request>>, <<>>, FALSE, c)
        ELSE IF resp.decode = "RequestException"
        THEN \* response.json() raised requests' JSONDecodeError (line 181)
             Did(RaiseMsg("ConnectionError", <<"Error fetching flood data for location">>),
                 <<cache_key>>, <<request>>, <<>>, FALSE, c)
        ELSE IF resp.decode = "ValueError"
        THEN \* response.json() raised json's JSONDecodeError (line 189)
             Did(RaiseMsg("ValueError",
                          <<"Unexpected error occured when retrieving flood data">>),
                 <<cache_key>>, <<request>>, <<>>, FALSE, c)
        ELSE Did(Return(resp.data), <<cache_key>>, <<request>>,
                 <<SetCall(cache_key, resp.data, CACHE_TIMEOUT, DEFAULT_VERSION)>>,
                 FALSE,
                 CacheSet(c, t, cache_key, resp.data, CACHE_TIMEOUT, DEFAULT_VERSION))

---------------------------------------------------------------------------
(* risk_utils.py: the scorers.  A score v stands for v / ScoreScale points. *)

ScoreScale == 4

\* CRIME_WEIGHTS with "drugs" weighing 1 instead of 1.5
CrimeWeightDrugsOne(category) ==
    CASE category \in {"criminal-damage-arson", "possession-of-weapons",
                       "violent-crime"} -> 8
      [] category \in {"burglary", "robbery"} -> 6
      [] category \in {"other-theft", "public-order", "shoplifting",
                       "theft-from-the-person", "vehicle-crime"} -> 4
      [] OTHER -> 2

\* CRIME_WEIGHTS.get(category, 1), doubled
CrimeWeightDoubled(category) ==
    CASE category = "anti-social-behaviour" -> 2
      [] category = "bicycle-theft" -> 2
      [] category = "burglary" -> 6
      [] category = "criminal-damage-arson" -> 8
      [] category = "drugs" -> 3
      [] category = "other-crime" -> 2
      [] category = "other-theft" -> 4
      [] category = "possession-of-weapons" -> 8
      [] category = "public-order" -> 4
      [] category = "robbery" -> 6
      [] category = "shoplifting" -> 4
      [] category = "theft-from-the-person" -> 4
      [] category = "vehicle-crime" -> 4
      [] category = "violent-crime" -> 8
      [] OTHER -> 2

\* PROPERTY_TYPE_MULTIPLIERS.get(product_type, 1) of calculate_crime_risk, doubled
CrimeMultiplierDoubled(product_type) ==
    CASE product_type = "BEAUTY" -> 2
      [] product_type = "HOME" -> 3
      [] product_type = "COMMERCIAL" -> 4
      [] OTHER -> 2

\* the loop of calculate_crime_risk: a record with no (or an empty) category
\* adds nothing
RECURSIVE CrimeSumDoubled(_)
CrimeSumDoubled(crime_data) ==
    IF crime_data = <<>> THEN 0
    ELSE LET crime == Head(crime_data)
             weight == IF "category" \in DOMAIN crime /\ crime.category # ""
                       THEN CrimeWeightDoubled(crime.category) ELSE 0
         IN  weight + CrimeSumDoubled(Tail(crime_data))

Min(a, b) == IF a < b THEN a ELSE b

\* calculate_crime_risk without the min(..., 1) of line 252
calculate_crime_risk_unclamped(crime_data, product_type) ==
    Return(CrimeSumDoubled(crime_data) * CrimeMultiplierDoubled(product_type))

\* calculate_crime_risk(crime_data, product_type):
\* min(crime_risk / MAXIMUM_CRIME_RISK, 1) * 100
calculate_crime_risk(crime_data, product_type) ==
    LET crime_risk == CrimeSumDoubled(crime_data) * CrimeMultiplierDoubled(product_type)
    IN  Return(Min(crime_risk, 100 * ScoreScale))

\* the flood multipliers in the order of the crime table (COMMERCIAL highest)
FloodMultiplierCrimeOrder(product_type) ==
    CASE product_type = "BEAUTY" -> 2
      [] product_type = "HOME" -> 3
      [] product_type = "COMMERCIAL" -> 4
      [] OTHER -> 2

\* PROPERTY_TYPE_MULTIPLIERS.get(product_type, 1) of calculate_flood_risk, doubled
FloodMultiplierDoubled(product_type) ==
    CASE product_type = "BEAUTY" -> 2
      [] product_type = "COMMERCIAL" -> 3
      [] product_type = "HOME" -> 4
      [] OTHER -> 2

\* the item score without the tidal surcharge of lines 306-307
FloodItemScoreNoTidal(flood) ==
    LET severityLevel == IF "severityLevel" \in DOMAIN flood
                         THEN flood.severityLevel ELSE 4
    IN  CASE severityLevel = 1 -> 20
          [] severityLevel = 2 -> 15
          [] severityLevel = 3 -> 10
          [] OTHER -> 0

FloodItemScore(flood) ==
    LET severityLevel == IF "severityLevel" \in DOMAIN flood
                         THEN flood.severityLevel ELSE 4
        isTidal == IF "isTidal" \in DOMAIN flood THEN flood.isTidal ELSE FALSE
        score == CASE severityLevel = 1 -> 20
                   [] severityLevel = 2 -> 15
                   [] severityLevel = 3 -> 10
                   [] OTHER -> 0
    IN  score + (IF isTidal THEN 10 ELSE 0)

RECURSIVE FloodSum(_)
FloodSum(items) ==
    IF items = <<>> THEN 0
    ELSE FloodItemScore(Head(items)) + FloodSum(Tail(items))

\* calculate_flood_risk(flood_data, product_type):
\* min(flood_risk / MAX_FLOOD_RISK, 1) * 100 with MAX_FLOOD_RISK = 200; iterating
\* flood_data.get('items') of a dict without 'items' raises, re-raised ValueError
calculate_flood_risk(flood_data, product_type) ==
    IF "items" \notin DOMAIN flood_data
    THEN RaiseMsg("ValueError", <<"Error calculating flood risk">>)
    ELSE LET flood_risk == FloodSum(flood_data.items) * FloodMultiplierDoubled(product_type)
         IN  Return(Min(flood_risk, 100 * ScoreScale))

---------------------------------------------------------------------------
(* riskservice.py: the pure functions of RiskService *)

\* RiskService.risk_type(flood_risk, crime_risk): with a total of exactly 100
\* neither branch binds risk_value, print(risk_value) raises UnboundLocalError
\* and the except clause raises ValueError
risk_type(flood_risk, crime_risk) ==
    LET total_risk == flood_risk + crime_risk
    IN  IF total_risk > 100 * ScoreScale THEN Return("HIGH_VALUE_RISK")
        ELSE IF total_risk < 100 * ScoreScale THEN Return("STANDARD_VALUE_RISK")
        ELSE RaiseMsg("ValueError", <<"Error calculating risk type">>)

\* quote_validity with the else branch falling through to the 14 days
quote_validity_default14(risk_value) ==
    IF risk_value = "HIGH_VALUE_RISK" THEN Return(7) ELSE Return(14)

\* RiskService.quote_validity(risk_value): no statement of the try block can raise
quote_validity(risk_value) ==
    IF risk_value = "HIGH_VALUE_RISK" THEN Return(7)
    ELSE IF risk_value = "STANDARD_VALUE_RISK" THEN Return(14)
    ELSE ReturnNone


---------------------------------------------------------------------------
(* riskservice.py: RiskService.calculate_location_risks, one step per call *)
(* of a lookup.  asmt holds the locals of the running call, the calls it   *)
(* has made (with what each returned) and its cache and network accesses.  *)

ProductTypes == {"HOME", "BEAUTY", "COMMERCIAL", ""}

\* the accesses of one lookup call, in order
IO(did) ==
    [i \in 1..Len(did.gets) |-> "cache.get"]
    \o [i \in 1..Len(did.net) |-> "requests.get"]
    \o [i \in 1..Len(did.sets) |-> "cache.set"]

MadeCall(fn, args, out) == [fn |-> fn, args |-> args, out |-> out]

\* a validation that looks at the postcode alone
InvalidInputPostcodeOnly(postcode, product_type, timestamp) ==
    postcode = <<>>

\* line 27: not postcode or not product_type or not timestamp
InvalidInput(postcode, product_type, timestamp) ==
    postcode = <<>> \/ product_type = "" \/ timestamp = <<>>

\* the call begins: lines 27-28 raise before the try block is entered
Begin(postcode, product_type, timestamp) ==
    LET a == [pc |-> "resolve", postcode |-> postcode,
              product_type |-> product_type, timestamp |-> timestamp,
              latitude |-> 0, longitude |-> 0, flood_risk |-> 0,
              crime_data |-> <<>>, calls |-> <<>>, io |-> <<>>,
              out |-> ReturnNone]
    IN  IF InvalidInput(postcode, product_type, timestamp)
        THEN [a EXCEPT !.pc = "done",
                       !.out = RaiseMsg("ValueError",
                           <<"Invalid input data provided">>)]
        ELSE a

\* lines 42-44: any exception e of the try block is re-raised as
\* ValueError(f'Error calculating location risks for postcode: {e}'); e is the
\* exception of the last call made, or the TypeError of unpacking its result
Failed(a) ==
    LET last == a.calls[Len(a.calls)].out
        e == IF last.kind = "raise" THEN last.msg
             ELSE <<"cannot unpack non-iterable object">>
    IN  [a EXCEPT !.pc = "done",
                  !.out = RaiseMsg("ValueError",
                      <<"Error calculating location risks for postcode">> \o e)]

\* line 32: latitude, longitude = get_long_lat(postcode); a value that is not
\* a pair (None, or the bare latitude a cache hit returns) cannot be unpacked
AfterResolve(a, did) ==
    LET a1 == [a EXCEPT !.calls = Append(@, MadeCall("get_long_lat",
                                                      <<a.postcode>>, did.out)),
                        !.io = @ \o IO(did)]
    IN  IF did.out.kind = "return" /\ ~did.hit
        THEN [a1 EXCEPT !.pc = "flood", !.latitude = did.out.val[1],
                        !.longitude = did.out.val[2]]
        ELSE Failed(a1)

\* a flood step that swallows a failed fetch and goes on with a flood risk of 0
AfterFloodSwallowing(a, did) ==
    LET a1 == [a EXCEPT !.calls = Append(@, MadeCall("get_flood_data_for_location",
                                           <<a.latitude, a.longitude>>, did.out)),
                        !.io = @ \o IO(did)]
    IN  [a1 EXCEPT !.pc = "crime"]

\* lines 33-34: flood_data = get_flood_data_for_location(lat, long);
\* flood_risk = calculate_flood_risk(flood_data, product_type)
AfterFlood(a, did) ==
    LET a1 == [a EXCEPT !.calls = Append(@, MadeCall("get_flood_data_for_location",
                                           <<a.latitude, a.longitude>>, did.out)),
                        !.io = @ \o IO(did)]
    IN  IF did.out.kind # "return" THEN Failed(a1)
        ELSE LET score == calculate_flood_risk(did.out.val, a.product_type)
                 a2 == [a1 EXCEPT !.calls = Append(@, MadeCall("calculate_flood_risk",
                                                     <<a.product_type>>, score))]
             IN  IF score.kind # "return" THEN Failed(a2)
                 ELSE [a2 EXCEPT !.pc = "crime", !.flood_risk = score.val]

\* lines 35-41: crime_data = get_crimes_for_location(timestamp, lat, long);
\* crime_risk = calculate_crime_risk(crime_data, 'HOME'); return the two scores
AfterCrime(a, did) ==
    LET a1 == [a EXCEPT !.calls = Append(@, MadeCall("get_crimes_for_location",
                                <<a.timestamp, a.latitude, a.longitude>>, did.out)),
                        !.io = @ \o IO(did)]
    IN  IF did.out.kind # "return" THEN Failed(a1)
        ELSE LET score == calculate_crime_risk(did.out.val, "HOME")
                 a2 == [a1 EXCEPT !.calls = Append(@, MadeCall("calculate_crime_risk",
                                                     <<"HOME">>, score)),
                                  !.crime_data = did.out.val]
             IN  IF score.kind # "return" THEN Failed(a2)
                 ELSE [a2 EXCEPT !.pc = "done",
                                 !.out = Return([flood_risk |-> a.flood_risk,
                                                 crime_risk |-> score.val])]

---------------------------------------------------------------------------
(* utils.py: log_api_call(max_retries, backoff_factor), the wrapper around *)
(* func.  wrap holds the locals of the running wrapper call, what every    *)
(* invocation of func did, the sleeps and the APILog rows created.         *)

\* the exceptions func may raise: ValueError (not found, invalid input),
\* ConnectionError and TimeoutError (transient)
ErrorKinds == {"ValueError", "ConnectionError", "TimeoutError"}

\* the responses func may return
Responses == {"response 200", "response 500"}

\* the None the wrapper returns when it falls off its end (val is a
\* placeholder of the type of a response)
WrapperNone == [ReturnNone EXCEPT !.val = ""]
\* the bare `raise` of line 84: the exception of the last attempt
Reraise(e) == [Raise(e) EXCEPT !.val = ""]

Returned(response) == [ok |-> TRUE, v |-> response]
Raised(e) == [ok |-> FALSE, v |-> e]

\* a wrapper that starts its waits at backoff_factor
WrapperEnteredEagerBackoff(max_retries, backoff_factor) ==
    LET w == [pc |-> "loop", max_retries |-> max_retries,
              backoff_factor |-> backoff_factor, attempt |-> 0,
              wait_time |-> backoff_factor, results |-> <<>>, sleeps |-> <<>>,
              audit |-> "none", apilog |-> 0, out |-> WrapperNone]
    IN  IF w.attempt < max_retries THEN w ELSE [w EXCEPT !.pc = "done"]

\* a wrapper that makes its first attempt before it looks at max_retries
WrapperEnteredAtLeastOnce(max_retries, backoff_factor) ==
    [pc |-> "loop", max_retries |-> max_retries,
     backoff_factor |-> backoff_factor, attempt |-> 0,
     wait_time |-> 1, results |-> <<>>, sleeps |-> <<>>,
     audit |-> "none", apilog |-> 0, out |-> WrapperNone]

\* lines 36-39: attempt = 0, wait_time = 1, and the first test of the loop;
\* when the loop is not entered the wrapper returns None
WrapperEntered(max_retries, backoff_factor) ==
    LET w == [pc |-> "loop", max_retries |-> max_retries,
              backoff_factor |-> backoff_factor, attempt |-> 0,
              wait_time |-> 1, results |-> <<>>, sleeps |-> <<>>,
              audit |-> "none", apilog |-> 0, out |-> WrapperNone]
    IN  IF w.attempt < max_retries THEN w ELSE [w EXCEPT !.pc = "done"]

\* a backoff that adds backoff_factor to the wait
OnFailureAdditiveBackoff(w, e) ==
    LET w1 == [w EXCEPT !.results = Append(@, Raised(e)), !.attempt = @ + 1]
    IN  IF w1.attempt >= w1.max_retries
        THEN [w1 EXCEPT !.pc = "done", !.out = Reraise(e)]
        ELSE [w1 EXCEPT !.sleeps = Append(@, w1.wait_time),
                        !.wait_time = @ + w1.backoff_factor]

\* a wrapper that writes an audit record for a failed attempt as well
OnFailureAuditing(w, e) ==
    LET w1 == [w EXCEPT !.results = Append(@, Raised(e)), !.attempt = @ + 1,
                        !.apilog = @ + 1]
    IN  IF w1.attempt >= w1.max_retries
        THEN [w1 EXCEPT !.pc = "done", !.out = Reraise(e)]
        ELSE [w1 EXCEPT !.sleeps = Append(@, w1.wait_time),
                        !.wait_time = @ * w1.backoff_factor]

\* lines 74-87: func raised e: count the attempt; re-raise e when the attempts
\* are used up, otherwise sleep wait_time, multiply it and loop
OnFailure(w, e) ==
    LET w1 == [w EXCEPT !.results = Append(@, Raised(e)), !.attempt = @ + 1]
    IN  IF w1.attempt >= w1.max_retries
        THEN [w1 EXCEPT !.pc = "done", !.out = Reraise(e)]
        ELSE [w1 EXCEPT !.sleeps = Append(@, w1.wait_time),
                        !.wait_time = @ * w1.backoff_factor]

\* a wrapper whose audit write is not guarded: its failure is handled like a
\* failure of func
OnSuccessAuditUnguarded(w, response, audit_ok) ==
    IF audit_ok
    THEN [w EXCEPT !.results = Append(@, Returned(response)), !.pc = "done",
                   !.audit = "written", !.apilog = @ + 1,
                   !.out = Return(response)]
    ELSE LET w1 == [w EXCEPT !.results = Append(@, Returned(response)),
                             !.audit = "failed", !.attempt = @ + 1]
         IN  IF w1.attempt >= w1.max_retries
             THEN [w1 EXCEPT !.pc = "done", !.out = Reraise("Exception")]
             ELSE [w1 EXCEPT !.sleeps = Append(@, w1.wait_time),
                             !.wait_time = @ * w1.backoff_factor]

\* lines 42-72: func returned response: APILog.objects.create(...) inside its
\* own try; an exception there is logged and dropped; return response
OnSuccess(w, response, audit_ok) ==
    [w EXCEPT !.results = Append(@, Returned(response)), !.pc = "done",
              !.audit = IF audit_ok THEN "written" ELSE "failed",
              !.apilog = IF audit_ok THEN @ + 1 ELSE @,
              !.out = Return(response)]

---------------------------------------------------------------------------
(* Idle values of the parts a specification does not exercise *)

NoCall ==
    [fn |-> "none", key |-> <<>>, warm |-> FALSE, prev |-> {},
     out |-> ReturnNone, gets |-> <<>>, net |-> <<>>, sets |-> <<>>, hit |-> FALSE]

AsmtIdle == [pc |-> "idle"]
WrapIdle == [pc |-> "idle"]
RiskIdle == [fn |-> "none"]
CallersIdle == [fn |-> "none"]
QuotesIdle == [table |-> <<>>]

---------------------------------------------------------------------------
(* SpecCache: calls of the three lookups against one shared cache *)

\* the fetches of the last CACHE_TIMEOUT seconds
Fresh(records, t) == { r \in records : t - r.at < CACHE_TIMEOUT }

FreshAll(f, t) == [p \in Prefixes |-> Fresh(f[p], t)]

\* the history after a call: a miss that fetched a value replaces the key's record
Remember(f, t, key, did) ==
    IF did.out.kind = "return" /\ ~did.hit
    THEN [f EXCEPT ![Prefix(key)] =
            { r \in @ : r.key # key }
            \cup { [key |-> key, val |-> did.out.val, at |-> t] }]
    ELSE f

\* the record of a call: warm says that the key was fetched successfully less
\* than CACHE_TIMEOUT seconds before the call, prev holds the value fetched then
Called(fn, key, did) ==
    LET before == { r \in Fresh(fetched[Prefix(key)], now) : r.key = key }
    IN  [fn |-> fn, key |-> key, warm |-> before # {},
         prev |-> { r.val : r \in before },
         out |-> did.out, gets |-> did.gets, net |-> did.net, sets |-> did.sets,
         hit |-> did.hit]

Lookup(fn, key, did) ==
    /\ cache' = did.cache
    /\ fetched' = Remember(fetched, now, key, did)
    /\ lastCall' = Called(fn, key, did)
    /\ UNCHANGED <<now, asmt, wrap, risk, callers, quotes>>

ResolveCall ==
    \E risk_postcode \in Postcodes \ {<<>>} :
      \E resp \in PostcodeResponses(risk_postcode) :
        Lookup("get_long_lat", PostcodeKey(NormalizePostcode(risk_postcode)),
               get_long_lat(cache, now, risk_postcode, resp))

CrimeCall ==
    \E timestamp \in Timestamps, coord \in LookupCoords, resp \in CrimeResponses :
        Lookup("get_crimes_for_location",
               IF ValidDate(timestamp)
               THEN CrimeKey(NormalizedDate(timestamp), coord[2], coord[1])
               ELSE <<"crimes", <<>>, coord[2], coord[1]>>,
               get_crimes_for_location(cache, now, timestamp, coord[1], coord[2], resp))

FloodCall ==
    \E coord \in LookupCoords, resp \in FloodResponses :
        Lookup("get_flood_data_for_location",
               FloodKey(coord[1], coord[2], DEFAULT_DIST),
               get_flood_data_for_location(cache, now, coord[1], coord[2],
                                           DEFAULT_DIST, resp))

\* time passes; the backend drops what has expired
Tick ==
    /\ now < MaxTicks * TickSeconds
    /\ now' = now + TickSeconds
    /\ cache' = LiveCache(cache, now')
    /\ fetched' = FreshAll(fetched, now')
    /\ UNCHANGED <<lastCall, asmt, wrap, risk, callers, quotes>>

InitCache ==
    /\ cache = EmptyCache
    /\ now = 0
    /\ fetched = EmptyCache
    /\ lastCall = NoCall
    /\ asmt = AsmtIdle
    /\ wrap = WrapIdle
    /\ callers = CallersIdle
    /\ quotes = QuotesIdle
    /\ risk = RiskIdle

NextCache == ResolveCall \/ CrimeCall \/ FloodCall \/ Tick

SpecCache == InitCache /\ [][NextCache]_vars

(* C1: a postal code resolved successfully less than 24 hours ago is, on its *)
(* next resolution, served from the cache with no call to the lookup service. *)
C1_SecondResolutionFromCache ==
    (lastCall.fn = "get_long_lat" /\ lastCall.warm)
        => (lastCall.hit /\ lastCall.net = <<>>)

\* the value a cache hit on the key of fetch r would return now
HitValue(r) == CacheGet(cache, now, r.key)

(* C2: a cache hit is indistinguishable from a miss-then-fetch: a call served *)
(* from the cache returns the value the fetch of that key returned, and for   *)
(* every key fetched less than 24 hours ago (by the resolver, the crime       *)
(* client or the flood client) a cache hit returns exactly the value that     *)
(* fetch returned.                                                            *)
C2_HitEqualsFetch ==
    /\ lastCall.hit =>
         (lastCall.out.kind = "return" /\ lastCall.prev = {lastCall.out.val})
    /\ \A p \in Prefixes : \A r \in Fresh(fetched[p], now) : HitValue(r) = {r.val}

(* C17: every cache entry written by the resolver, the crime client and the  *)
(* flood client is stored with a lifetime of exactly 86400 seconds, under    *)
(* the key and in the key namespace (version) that the lookup reads, so that *)
(* no entry outlives 24 hours and none expires earlier.                      *)
C17_EntriesLiveOneDay ==
    /\ \A i \in DOMAIN lastCall.sets :
         /\ lastCall.sets[i].timeout = CACHE_TIMEOUT
         /\ lastCall.sets[i].ver = DEFAULT_VERSION
         /\ lastCall.sets[i].key = lastCall.key
         /\ \A j \in DOMAIN lastCall.gets : lastCall.gets[j] = lastCall.sets[i].key
    /\ \A p \in Prefixes : \A r \in Fresh(fetched[p], now) :
         \E e \in cache[p] : e.key = r.key /\ e.ver = DEFAULT_VERSION
                             /\ e.exp = r.at + CACHE_TIMEOUT

(* C18: for every (month, longitude, latitude) whose crime dataset was       *)
(* fetched successfully and cached less than 24 hours ago, a further         *)
(* get_crimes_for_location for the same key performs no HTTP call, whatever  *)
(* the size of the cached dataset, zero records included.                    *)
C18_CachedCrimesNotRefetched ==
    (lastCall.fn = "get_crimes_for_location" /\ lastCall.warm)
        => lastCall.net = <<>>

(* C19: the resolver normalizes the postal code (spaces removed, uppercased) *)
(* before any cache or network access: the cache key and the upstream        *)
(* request are both built from the normalized code, so two spellings that    *)
(* differ in spacing or letter case only read the same cache entry and send  *)
(* the same request.                                                         *)
C19_NormalizedBeforeAccess ==
    lastCall.fn = "get_long_lat" =>
        LET normalized_postcode == lastCall.key[2]
        IN  /\ \A i \in DOMAIN lastCall.gets :
                 lastCall.gets[i] = PostcodeKey(normalized_postcode)
            /\ \A i \in DOMAIN lastCall.net :
                 lastCall.net[i].arg = normalized_postcode

(* C20: every call of the resolver ends in exactly one of three outcomes: it *)
(* returns a (latitude, longitude) pair, it raises ValueError because the    *)
(* upstream answered with a non-200 status, or it raises ConnectionError     *)
(* because of a network or timeout failure; it never returns without a       *)
(* coordinate pair.                                                          *)
C20_ResolverOutcomes ==
    lastCall.fn = "get_long_lat" =>
        \/ /\ lastCall.out.kind = "return"
           /\ lastCall.out.val \in Coords
        \/ /\ lastCall.out.kind = "raise"
           /\ lastCall.out.err \in {"ValueError", "ConnectionError"}

\* the answer the one request of the last call got, if it sent one
Asked == lastCall.net # <<>>
Answer == lastCall.net[1].answer

(* C21: the crime client reports three distinguishable error kinds: a       *)
(* malformed timestamp fails with the invalid-input error before any cache  *)
(* or network access; a network or timeout failure fails with the transient *)
(* error (ConnectionError); a non-200 response fails with an upstream error *)
(* that is distinguishable from the invalid-input (date parsing) error.     *)
C21_CrimeErrorKinds ==
    lastCall.fn = "get_crimes_for_location" =>
        LET malformed == lastCall.key[2] = <<>>
            invalidInput == /\ lastCall.out.kind = "raise"
                            /\ lastCall.out.err = "ValueError"
                            /\ lastCall.out.msg = <<"Invalid date format">>
        IN  /\ malformed =>
                 (invalidInput /\ lastCall.gets = <<>> /\ lastCall.net = <<>>)
            /\ (Asked /\ Answer[1] \in {NetFail, Timeout}) =>
                 (lastCall.out.kind = "raise" /\ lastCall.out.err = "ConnectionError")
            /\ (Asked /\ Answer[1] = Http /\ Answer[2] # 200) =>
                 /\ lastCall.out.kind = "raise"
                 /\ lastCall.out.err # "ConnectionError"
                 /\ ~invalidInput

(* C22: the flood client reports distinguishable error kinds: connection    *)
(* and timeout failures surface as the transient error (ConnectionError, or *)
(* TimeoutError for a timeout), a non-2xx response surfaces as an upstream  *)
(* error distinct from the transient one, and a malformed response body     *)
(* surfaces as the unexpected error (ValueError).                           *)
C22_FloodErrorKinds ==
    (lastCall.fn = "get_flood_data_for_location" /\ Asked) =>
        LET transient == /\ lastCall.out.kind = "raise"
                         /\ lastCall.out.err \in {"ConnectionError", "TimeoutError"}
        IN  /\ Answer[1] = NetFail =>
                 (lastCall.out.kind = "raise" /\ lastCall.out.err = "ConnectionError")
            /\ Answer[1] = Timeout => transient
            /\ (Answer[1] = Http /\ Answer[2] # 200) =>
                 (lastCall.out.kind = "raise" /\ ~transient)
            /\ (Answer[1] = Http /\ Answer[2] = 200 /\ Answer[3] # "ok") =>
                 (lastCall.out.kind = "raise" /\ lastCall.out.err = "ValueError")



\* `if cached_coords:` / `if cached_crimes:` for the value v of a key of fn
TruthyFor(fn, v) ==
    CASE fn = "get_long_lat" -> TruthyNumber(v)
      [] fn = "get_crimes_for_location" -> TruthyList(v)
      [] OTHER -> TruthyDict(v)

\* the last call ended in an error after it had asked the upstream
FailedUpstream == lastCall.out.kind = "raise" /\ Asked

(* C27: a failed lookup leaves the cache unchanged: when the resolver, the   *)
(* crime client or the flood client ends in an error (network failure,       *)
(* timeout, non-success status or unparsable input) it writes no cache       *)
(* entry, so errors are never cached and the next call for the same key      *)
(* goes to the upstream again.                                               *)
C27_FailedLookupLeavesCache ==
    /\ [](lastCall.out.kind = "raise" => lastCall.sets = <<>>)
    /\ [](FailedUpstream =>
            ~\E v \in CacheGet(cache, now, lastCall.key) : TruthyFor(lastCall.fn, v))
    /\ [][(now' = now /\ lastCall'.out.kind = "raise") => cache' = cache]_vars

\* the crime client failed at the upstream while the cache held a flood dataset
C27_Witness ==
    /\ lastCall.fn = "get_crimes_for_location"
    /\ FailedUpstream
    /\ cache["flood_risk"] # {}

---------------------------------------------------------------------------
(* SpecRisk: the pure functions of RiskService on bounded inputs *)

\* the scores risk_type is given: multiples of ten points
ScoreValues == { 10 * ScoreScale * k : k \in 0..MaxScoreTens }

RiskTypeCall ==
    /\ \E flood_risk \in ScoreValues, crime_risk \in ScoreValues :
         risk' = [fn |-> "risk_type", flood_risk |-> flood_risk,
                  crime_risk |-> crime_risk,
                  out |-> risk_type(flood_risk, crime_risk)]
    /\ UNCHANGED <<cache, now, fetched, lastCall, asmt, wrap, callers, quotes>>

\* the values quote_validity is given: the two categories and other strings
RiskValues ==
    {"HIGH_VALUE_RISK", "STANDARD_VALUE_RISK", "UNKNOWN", "high_value_risk", ""}

QuoteValidityCall ==
    /\ \E risk_value \in RiskValues :
         risk' = [fn |-> "quote_validity", risk_value |-> risk_value,
                  out |-> quote_validity(risk_value)]
    /\ UNCHANGED <<cache, now, fetched, lastCall, asmt, wrap, callers, quotes>>

InitRisk ==
    /\ cache = EmptyCache
    /\ now = 0
    /\ fetched = EmptyCache
    /\ lastCall = NoCall
    /\ asmt = AsmtIdle
    /\ wrap = WrapIdle
    /\ callers = CallersIdle
    /\ quotes = QuotesIdle
    /\ risk = RiskIdle

NextRisk ==
    \/ RiskTypeCall
    \/ QuoteValidityCall

SpecRisk == InitRisk /\ [][NextRisk]_vars

(* C3: the risk category is a total function of floodRisk + crimeRisk:       *)
(* HIGH_VALUE_RISK iff the sum is above 100, STANDARD_VALUE_RISK iff it is    *)
(* below 100, and for a sum of exactly 100 risk_type returns one of the two   *)
(* categories and does not raise.                                             *)
C3_CategoryTotal ==
    risk.fn = "risk_type" =>
        LET total == risk.flood_risk + risk.crime_risk
        IN  /\ risk.out.kind = "return"
            /\ risk.out.val \in {"HIGH_VALUE_RISK", "STANDARD_VALUE_RISK"}
            /\ (risk.out.val = "HIGH_VALUE_RISK") <=> (total > 100 * ScoreScale)
            /\ (total < 100 * ScoreScale) => (risk.out.val = "STANDARD_VALUE_RISK")

(* C16: quote_validity maps HIGH_VALUE_RISK to 7 days, STANDARD_VALUE_RISK   *)
(* to 14 days and every other category value to None, and never raises.     *)
C16_QuoteValidity ==
    risk.fn = "quote_validity" =>
        /\ risk.out.kind # "raise"
        /\ risk.risk_value = "HIGH_VALUE_RISK" =>
              (risk.out.kind = "return" /\ risk.out.val = 7)
        /\ risk.risk_value = "STANDARD_VALUE_RISK" =>
              (risk.out.kind = "return" /\ risk.out.val = 14)
        /\ risk.risk_value \notin {"HIGH_VALUE_RISK", "STANDARD_VALUE_RISK"} =>
              risk.out.kind = "none"

\* a value that is no category was mapped to None
C16_Witness ==
    /\ risk.fn = "quote_validity"
    /\ risk.risk_value = "UNKNOWN"
    /\ risk.out.kind = "none"


---------------------------------------------------------------------------
(* SpecScore: the two scorers of risk_utils.py on bounded datasets *)

\* a dataset is a base list of at most MaxBase records, repeated up to
\* MaxCopies times, so that sums above the normalization cap are reached
MaxBase == 2

MaxCopies == 13

SeqsUpTo(S, n) == UNION { [1..k -> S] : k \in 0..n }

RECURSIVE Repeat(_, _)
Repeat(s, k) == IF k = 0 THEN <<>> ELSE s \o Repeat(s, k - 1)

\* crime records: table categories, a category outside the table, an empty
\* category and a record that carries no category
CrimeRecords ==
    { [category |-> c] : c \in {"burglary", "drugs", "violent-crime", "fraud", ""} }
        \cup { [month |-> "2024-01"] }

ScoreCrimeDatasets ==
    { Repeat(base, k) : base \in SeqsUpTo(CrimeRecords, MaxBase), k \in 1..MaxCopies }

\* flood items: every severity with both tidal flags, an item without a
\* severity and an item without a tidal flag
FloodItems ==
    { [severityLevel |-> s, isTidal |-> t] : s \in 1..4, t \in BOOLEAN }
        \cup { [isTidal |-> TRUE], [severityLevel |-> 2] }

\* flood responses: with an item list, and the response without one
ScoreFloodDatasets ==
    { [meta |-> "floods", items |-> Repeat(base, k)] :
          base \in SeqsUpTo(FloodItems, MaxBase), k \in 1..MaxCopies }
        \cup { [meta |-> "floods"] }

\* the three product types of the tables and one outside them
ScoreProductTypes == {"BEAUTY", "HOME", "COMMERCIAL", "TRAVEL"}

\* a call of a scorer with its arguments bound, before its body has run
ScorerCalled(fn, data, product_type) ==
    [fn |-> fn, pc |-> "called", data |-> data, product_type |-> product_type]

CrimeRiskCall ==
    /\ risk.fn = "calculate_crime_risk"
    /\ risk.pc = "called"
    /\ risk' = [fn |-> risk.fn, pc |-> "done", data |-> risk.data,
                product_type |-> risk.product_type,
                out |-> calculate_crime_risk(risk.data, risk.product_type)]
    /\ UNCHANGED <<cache, now, fetched, lastCall, asmt, wrap, callers, quotes>>

FloodRiskCall ==
    /\ risk.fn = "calculate_flood_risk"
    /\ risk.pc = "called"
    /\ risk' = [fn |-> risk.fn, pc |-> "done", data |-> risk.data,
                product_type |-> risk.product_type,
                out |-> calculate_flood_risk(risk.data, risk.product_type)]
    /\ UNCHANGED <<cache, now, fetched, lastCall, asmt, wrap, callers, quotes>>

InitScore ==
    /\ cache = EmptyCache
    /\ now = 0
    /\ fetched = EmptyCache
    /\ lastCall = NoCall
    /\ asmt = AsmtIdle
    /\ wrap = WrapIdle
    /\ callers = CallersIdle
    /\ quotes = QuotesIdle
    /\ \E product_type \in ScoreProductTypes :
         \/ \E crime_data \in ScoreCrimeDatasets :
              risk = ScorerCalled("calculate_crime_risk", crime_data, product_type)
         \/ \E flood_data \in ScoreFloodDatasets :
              risk = ScorerCalled("calculate_flood_risk", flood_data, product_type)

NextScore ==
    \/ CrimeRiskCall
    \/ FloodRiskCall

SpecScore == InitScore /\ [][NextScore]_vars

\* the call in risk scored a crime dataset / a flood dataset with an item list
CrimeScored == risk.fn = "calculate_crime_risk" /\ risk.pc = "done"
FloodScored ==
    risk.fn = "calculate_flood_risk" /\ risk.pc = "done" /\ "items" \in DOMAIN risk.data

(* C11: for every crime dataset and every flood dataset (any number of      *)
(* records, any categories, severity levels and tidal flags) and every      *)
(* product type, known or not, calculate_crime_risk and                     *)
(* calculate_flood_risk return a score in the closed range [0, 100].        *)
C11_ScoresInRange ==
    (CrimeScored \/ FloodScored) =>
        /\ risk.out.kind = "return"
        /\ 0 <= risk.out.val
        /\ risk.out.val <= 100 * ScoreScale

\* a crime dataset whose weighted sum lies above the cap was scored 100, for
\* a product type outside the table
C11_Witness ==
    /\ CrimeScored
    /\ risk.product_type = "TRAVEL"
    /\ CrimeSumDoubled(risk.data) * 2 > 100 * ScoreScale
    /\ risk.out.kind = "return"
    /\ risk.out.val = 100 * ScoreScale

\* the reference of the crime score, in quarter points: the 14-entry table
\* (weights 1, 1.5, 2, 3, 4) and the multipliers, both in halves
RefCrimeWeight(category) ==
    CASE category \in {"anti-social-behaviour", "bicycle-theft", "other-crime"} -> 2
      [] category \in {"drugs"} -> 3
      [] category \in {"other-theft", "public-order", "shoplifting",
                       "theft-from-the-person", "vehicle-crime"} -> 4
      [] category \in {"burglary", "robbery"} -> 6
      [] category \in {"criminal-damage-arson", "possession-of-weapons",
                       "violent-crime"} -> 8
      [] OTHER -> 2

RefCrimeMultiplier(product_type) ==
    CASE product_type = "COMMERCIAL" -> 4
      [] product_type = "HOME" -> 3
      [] OTHER -> 2

\* a record whose category is missing or empty
Blank(crime) == "category" \notin DOMAIN crime \/ crime.category = ""

\* the reference score; blank is what a record with a blank category counts
RefCrimeScore(crime_data, product_type, blank) ==
    LET n == Len(crime_data)
        weight(crime) == IF Blank(crime) THEN blank
                         ELSE RefCrimeWeight(crime.category)
        sum[i \in 0..n] == IF i = 0 THEN 0 ELSE sum[i - 1] + weight(crime_data[i])
        raw == sum[n] * RefCrimeMultiplier(product_type)
    IN  IF raw >= 100 * ScoreScale THEN 100 * ScoreScale ELSE raw

(* C12 as stated: calculate_crime_risk equals the reference, the sum over   *)
(* ALL records of the table weight (an unknown category, a blank one        *)
(* included, counts 1) times the product multiplier, normalized as          *)
(* min(sum/100, 1) * 100.                                                   *)
C12_CrimeEqualsReference ==
    CrimeScored =>
        /\ risk.out.kind = "return"
        /\ risk.out.val = RefCrimeScore(risk.data, risk.product_type, 2)

(* C12, amended: calculate_crime_risk equals the reference: the sum over    *)
(* the records that carry a non-empty category of the weight from the fixed *)
(* 14-entry table (an unknown category counts 1; a record whose category is *)
(* missing or empty counts 0), times the product multiplier (BEAUTY 1.0,    *)
(* HOME 1.5, COMMERCIAL 2.0, unknown 1.0), normalized as                    *)
(* min(sum/100, 1) * 100; [burglary, drugs] with HOME gives 6.75.           *)
C12_CrimeEqualsReferenceSkippingBlank ==
    CrimeScored =>
        /\ risk.out.kind = "return"
        /\ risk.out.val = RefCrimeScore(risk.data, risk.product_type, 0)

\* the scenario of the claim: [burglary, drugs] with HOME scored 6.75
C12_Witness ==
    /\ CrimeScored
    /\ risk.data = <<[category |-> "burglary"], [category |-> "drugs"]>>
    /\ risk.product_type = "HOME"
    /\ risk.out.kind = "return"
    /\ risk.out.val * 100 = 675 * ScoreScale

\* the reference of the flood score, in quarter points: points per item and
\* the multipliers in halves
RefFloodPoints(flood) ==
    LET severity == IF "severityLevel" \in DOMAIN flood THEN flood.severityLevel ELSE 4
        tidal == "isTidal" \in DOMAIN flood /\ flood.isTidal
    IN  (IF severity \in 1..3 THEN 25 - 5 * severity ELSE 0)
            + (IF tidal THEN 10 ELSE 0)

RefFloodMultiplier(product_type) ==
    CASE product_type = "HOME" -> 4
      [] product_type = "COMMERCIAL" -> 3
      [] OTHER -> 2

RefFloodScore(items, product_type) ==
    LET n == Len(items)
        sum[i \in 0..n] == IF i = 0 THEN 0 ELSE sum[i - 1] + RefFloodPoints(items[i])
        raw == sum[n] * RefFloodMultiplier(product_type)
    IN  IF raw >= 200 * 2 THEN 100 * ScoreScale ELSE raw

(* C13: calculate_flood_risk equals the reference: the sum over the items   *)
(* of 20 / 15 / 10 / 0 points for severity 1 / 2 / 3 / anything else (a     *)
(* missing severity is level 4) plus 10 when the item is tidal, times the   *)
(* product multiplier (BEAUTY 1.0, COMMERCIAL 1.5, HOME 2.0, unknown 1.0),  *)
(* normalized as min(sum/200, 1) * 100; one item {severity 1, tidal} with   *)
(* HOME gives 30.                                                           *)
C13_FloodEqualsReference ==
    FloodScored =>
        /\ risk.out.kind = "return"
        /\ risk.out.val = RefFloodScore(risk.data.items, risk.product_type)

\* the scenario of the claim: one tidal item of severity 1 with HOME scored 30
C13_Witness ==
    /\ FloodScored
    /\ risk.data.items = <<[severityLevel |-> 1, isTidal |-> TRUE]>>
    /\ risk.product_type = "HOME"
    /\ risk.out.kind = "return"
    /\ risk.out.val = 30 * ScoreScale

\* the scores of the dataset of the finished call, per product type
CrimeScoreFor(product_type) == calculate_crime_risk(risk.data, product_type).val
FloodScoreFor(product_type) == calculate_flood_risk(risk.data, product_type).val

(* C14: for one and the same dataset the scores are ordered by product      *)
(* type: crime COMMERCIAL >= HOME >= BEAUTY and flood HOME >= COMMERCIAL    *)
(* >= BEAUTY, also for datasets whose raw sum lies above the cap.           *)
C14_OrderedByProductType ==
    /\ CrimeScored =>
          /\ risk.out.val = CrimeScoreFor(risk.product_type)
          /\ CrimeScoreFor("COMMERCIAL") >= CrimeScoreFor("HOME")
          /\ CrimeScoreFor("HOME") >= CrimeScoreFor("BEAUTY")
    /\ FloodScored =>
          /\ risk.out.val = FloodScoreFor(risk.product_type)
          /\ FloodScoreFor("HOME") >= FloodScoreFor("COMMERCIAL")
          /\ FloodScoreFor("COMMERCIAL") >= FloodScoreFor("BEAUTY")

\* a flood dataset that HOME and COMMERCIAL score at the cap and BEAUTY below
C14_Witness ==
    /\ FloodScored
    /\ risk.product_type = "HOME"
    /\ risk.out.val = 100 * ScoreScale
    /\ FloodSum(risk.data.items) * 3 > 100 * ScoreScale
    /\ FloodScoreFor("BEAUTY") < 100 * ScoreScale

(* C15: an empty dataset scores 0 without error for every product type:     *)
(* calculate_crime_risk of an empty list returns 0, and calculate_flood_risk *)
(* of a flood dataset with an empty item list, or with no item list at all, *)
(* returns 0.                                                               *)
C15_EmptyDatasetScoresZero ==
    LET emptyCrime == risk.fn = "calculate_crime_risk" /\ risk.data = <<>>
        emptyFlood == /\ risk.fn = "calculate_flood_risk"
                      /\ ("items" \in DOMAIN risk.data => risk.data.items = <<>>)
    IN  (risk.pc = "done" /\ (emptyCrime \/ emptyFlood)) =>
            /\ risk.out.kind = "return"
            /\ risk.out.val = 0

---------------------------------------------------------------------------
(* Spec: assessments, one after another, against one shared cache *)

AssessStart ==
    /\ asmt.pc \in {"idle", "done"}
    /\ \E postcode \in Postcodes, product_type \in ProductTypes,
          timestamp \in Timestamps :
         asmt' = Begin(postcode, product_type, timestamp)
    /\ UNCHANGED <<cache, now, fetched, lastCall, wrap, risk, callers, quotes>>

AssessResolve ==
    /\ asmt.pc = "resolve"
    /\ \E resp \in PostcodeResponses(asmt.postcode) :
         LET did == get_long_lat(cache, now, asmt.postcode, resp)
         IN  /\ cache' = did.cache
             /\ asmt' = AfterResolve(asmt, did)
    /\ UNCHANGED <<now, fetched, lastCall, wrap, risk, callers, quotes>>

AssessFlood ==
    /\ asmt.pc = "flood"
    /\ \E resp \in FloodResponses :
         LET did == get_flood_data_for_location(cache, now, asmt.latitude,
                                                asmt.longitude, DEFAULT_DIST, resp)
         IN  /\ cache' = did.cache
             /\ asmt' = AfterFlood(asmt, did)
    /\ UNCHANGED <<now, fetched, lastCall, wrap, risk, callers, quotes>>

AssessCrime ==
    /\ asmt.pc = "crime"
    /\ \E resp \in CrimeResponses :
         LET did == get_crimes_for_location(cache, now, asmt.timestamp,
                                            asmt.latitude, asmt.longitude, resp)
         IN  /\ cache' = did.cache
             /\ asmt' = AfterCrime(asmt, did)
    /\ UNCHANGED <<now, fetched, lastCall, wrap, risk, callers, quotes>>

Init ==
    /\ cache = EmptyCache
    /\ now = 0
    /\ fetched = EmptyCache
    /\ lastCall = NoCall
    /\ asmt = AsmtIdle
    /\ wrap = WrapIdle
    /\ callers = CallersIdle
    /\ quotes = QuotesIdle
    /\ risk = RiskIdle

Next == AssessStart \/ AssessResolve \/ AssessFlood \/ AssessCrime

Spec == Init /\ [][Next]_vars

\* the assessment has returned its result
Assessed == asmt.pc = "done" /\ asmt.out.kind = "return"

(* C4: in an assessment the crime score is computed with the request's own   *)
(* product type: crime_risk of the result is calculate_crime_risk of the      *)
(* fetched crime dataset and that product type.                               *)
C4_CrimeScoreUsesProductType ==
    Assessed =>
        asmt.out.val.crime_risk
            = calculate_crime_risk(asmt.crime_data, asmt.product_type).val

\* the calls of an assessment, in the order of lines 32-36
StepOrder ==
    <<"get_long_lat", "get_flood_data_for_location", "calculate_flood_risk",
      "get_crimes_for_location", "calculate_crime_risk">>

Succeeded(call) == call.out.kind = "return"

(* C9: the assessment is a sequential fail-fast pipeline: the resolver, the   *)
(* flood client and the crime client (each followed by its scorer) are called *)
(* at most once and in that order, the clients with the coordinate the        *)
(* resolver returned; no step runs after a failed one; a finished assessment  *)
(* either raises (its last step failed) or returns exactly the two scores the *)
(* scorers returned.                                                           *)
C9_SequentialFailFast ==
    (asmt.pc # "idle" /\ ~InvalidInput(asmt.postcode, asmt.product_type,
                                        asmt.timestamp)) =>
        LET calls == asmt.calls
            n == Len(calls)
        IN  /\ n <= Len(StepOrder)
            /\ \A i \in 1..n : calls[i].fn = StepOrder[i]
            /\ \A i \in 1..(n - 1) : Succeeded(calls[i])
            /\ n >= 1 => calls[1].args = <<asmt.postcode>>
            /\ n >= 2 => calls[2].args = calls[1].out.val
            /\ n >= 4 => calls[4].args = <<asmt.timestamp>> \o calls[1].out.val
            /\ asmt.pc = "resolve" <=> n = 0
            /\ asmt.pc = "flood" => (n = 1 /\ Succeeded(calls[1]))
            /\ asmt.pc = "crime" => (n = 3 /\ Succeeded(calls[3]))
            /\ asmt.pc = "done" =>
                 IF n = Len(StepOrder) /\ Succeeded(calls[n])
                 THEN /\ asmt.out.kind = "return"
                      /\ asmt.out.val.flood_risk = calls[3].out.val
                      /\ asmt.out.val.crime_risk = calls[5].out.val
                 ELSE /\ asmt.out.kind = "raise"
                      /\ asmt.out.err = "ValueError"
                      /\ n >= 1 /\ ~Succeeded(calls[n])

\* the flood client failed after the resolver succeeded: the assessment raised
\* and neither scorer nor the crime client was called
C9_Witness ==
    /\ asmt.pc = "done"
    /\ asmt.out.kind = "raise"
    /\ Len(asmt.calls) = 2
    /\ Succeeded(asmt.calls[1])
    /\ asmt.calls[2].fn = "get_flood_data_for_location"

(* C10: an assessment with an empty postal code, product type or timestamp    *)
(* fails with ValueError before any lookup is called and before any cache or  *)
(* network access.                                                             *)
C10_InvalidInputRejectedFirst ==
    (asmt.pc # "idle" /\ (asmt.postcode = <<>> \/ asmt.product_type = ""
                          \/ asmt.timestamp = <<>>)) =>
        /\ asmt.pc = "done"
        /\ asmt.out.kind = "raise"
        /\ asmt.out.err = "ValueError"
        /\ asmt.calls = <<>>
        /\ asmt.io = <<>>

\* an assessment whose timestamp alone is empty has been rejected
C10_Witness ==
    /\ asmt.pc = "done"
    /\ asmt.timestamp = <<>>
    /\ asmt.postcode # <<>>
    /\ asmt.product_type # ""
    /\ asmt.out.kind = "raise"

\* the three sub-lookups of an assessment
SubLookups ==
    {"get_long_lat", "get_flood_data_for_location", "get_crimes_for_location"}

\* the call of the assessment that was made last
LastCall == asmt.calls[Len(asmt.calls)]

(* C23: when a sub-lookup of an assessment fails, the error that             *)
(* calculate_location_risks raises surfaces the originating error with its  *)
(* kind intact, wrapped with the context of the failed sub-lookup, so that   *)
(* the caller can tell a not-found postal code (ValueError) from a transient *)
(* network failure (ConnectionError) and from an invalid timestamp.          *)
C23_ErrorKindSurfaces ==
    (/\ asmt.pc = "done"
     /\ asmt.calls # <<>>
     /\ LastCall.fn \in SubLookups
     /\ LastCall.out.kind = "raise") =>
        /\ asmt.out.kind = "raise"
        /\ asmt.out.err = LastCall.out.err
        /\ Len(asmt.out.msg) > 1
        /\ Tail(asmt.out.msg) = LastCall.out.msg

---------------------------------------------------------------------------
(* SpecWrap: calls of the wrapper around an operation that may fail *)

WrapperCall ==
    /\ wrap.pc \in {"idle", "done"}
    /\ \E max_retries \in (0 - 1)..MaxRetries, backoff_factor \in 1..MaxBackoff :
         wrap' = WrapperEntered(max_retries, backoff_factor)
    /\ UNCHANGED <<cache, now, fetched, lastCall, asmt, risk, callers, quotes>>

\* one pass of the loop in which func returns
AttemptReturns ==
    /\ wrap.pc = "loop"
    /\ \E response \in Responses, audit_ok \in BOOLEAN :
         wrap' = OnSuccess(wrap, response, audit_ok)
    /\ UNCHANGED <<cache, now, fetched, lastCall, asmt, risk, callers, quotes>>

\* one pass of the loop in which func raises
AttemptRaises ==
    /\ wrap.pc = "loop"
    /\ \E e \in ErrorKinds : wrap' = OnFailure(wrap, e)
    /\ UNCHANGED <<cache, now, fetched, lastCall, asmt, risk, callers, quotes>>

InitWrap ==
    /\ cache = EmptyCache
    /\ now = 0
    /\ fetched = EmptyCache
    /\ lastCall = NoCall
    /\ asmt = AsmtIdle
    /\ wrap = WrapIdle
    /\ callers = CallersIdle
    /\ quotes = QuotesIdle
    /\ risk = RiskIdle

NextWrap == WrapperCall \/ AttemptReturns \/ AttemptRaises

SpecWrap == InitWrap /\ [][NextWrap]_vars

RECURSIVE Pow(_, _)
Pow(b, e) == IF e = 0 THEN 1 ELSE b * Pow(b, e - 1)

RECURSIVE SumSeq(_)
SumSeq(q) == IF q = <<>> THEN 0 ELSE Head(q) + SumSeq(Tail(q))

\* the sleeps before attempts 2 .. k + 1: 1, backoff_factor, backoff_factor^2, ...
BackoffSchedule(backoff_factor, k) == [i \in 1..k |-> Pow(backoff_factor, i - 1)]

Failures(results) == { i \in 1..Len(results) : ~results[i].ok }

(* C5: when every attempt of the wrapped operation fails, the wrapper makes   *)
(* exactly max_retries attempts, sleeps 1, backoff_factor, backoff_factor^2,  *)
(* ... between consecutive attempts and not after the last one, and raises    *)
(* the error of the last attempt unchanged.                                   *)
C5_ExhaustedRetries ==
    (wrap.pc = "done" /\ wrap.results # <<>>
        /\ Failures(wrap.results) = 1..Len(wrap.results)) =>
        /\ Len(wrap.results) = wrap.max_retries
        /\ wrap.sleeps = BackoffSchedule(wrap.backoff_factor, wrap.max_retries - 1)
        /\ wrap.out.kind = "raise"
        /\ wrap.out.err = wrap.results[wrap.max_retries].v

\* three attempts with backoff_factor 2 have all failed, the last one with
\* another error than the first
C5_Witness ==
    /\ wrap.pc = "done"
    /\ wrap.max_retries = 3
    /\ wrap.backoff_factor = 2
    /\ Failures(wrap.results) = 1..3
    /\ wrap.results[1].v # wrap.results[3].v
    /\ wrap.sleeps = <<1, 2>>

(* C6: when the wrapped operation fails k times (k < max_retries) and then    *)
(* succeeds, the wrapper returns that response after exactly k + 1            *)
(* invocations, having slept 1 + backoff_factor + ... + backoff_factor^(k-1)  *)
(* seconds in total (3 seconds for k = 2 and backoff_factor = 2).             *)
C6_SuccessAfterFailures ==
    (wrap.pc = "done" /\ wrap.out.kind = "return") =>
        LET n == Len(wrap.results)
            k == n - 1
        IN  /\ n >= 1
            /\ k < wrap.max_retries
            /\ Failures(wrap.results) = 1..k
            /\ wrap.results[n].ok /\ wrap.out.val = wrap.results[n].v
            /\ wrap.sleeps = BackoffSchedule(wrap.backoff_factor, k)
            /\ SumSeq(wrap.sleeps) = SumSeq(BackoffSchedule(wrap.backoff_factor, k))
            /\ (k = 2 /\ wrap.backoff_factor = 2) => SumSeq(wrap.sleeps) = 3

\* two failures, then the third attempt of three returns, with backoff_factor 2
C6_Witness ==
    /\ wrap.pc = "done"
    /\ wrap.out.kind = "return"
    /\ wrap.max_retries = 3
    /\ wrap.backoff_factor = 2
    /\ Len(wrap.results) = 3
    /\ SumSeq(wrap.sleeps) = 3

(* C7: a failure with ValueError (not found, invalid input) is never retried: *)
(* the operation is invoked once, the wrapper does not sleep and raises that  *)
(* error at once; only ConnectionError and TimeoutError are retried.          *)
C7_NotFoundNotRetried ==
    wrap.pc # "idle" =>
        \A i \in 1..Len(wrap.results) :
            (~wrap.results[i].ok /\ wrap.results[i].v = "ValueError") =>
                /\ i = Len(wrap.results)
                /\ Len(wrap.sleeps) = i - 1
                /\ wrap.pc = "done"
                /\ wrap.out.kind = "raise"
                /\ wrap.out.err = "ValueError"

(* C8: when the wrapped operation succeeds and writing the audit record       *)
(* fails, the wrapper returns the operation's response unchanged, raises      *)
(* nothing, does not invoke the operation again, and the audit failure is not *)
(* counted as a failed attempt.                                               *)
C8_AuditFailureSwallowed ==
    (wrap.pc # "idle" /\ wrap.audit = "failed") =>
        LET n == Len(wrap.results)
        IN  /\ wrap.pc = "done"
            /\ wrap.results[n].ok
            /\ wrap.out.kind = "return"
            /\ wrap.out.val = wrap.results[n].v
            /\ wrap.attempt = Cardinality(Failures(wrap.results))
            /\ Len(wrap.sleeps) = wrap.attempt
            /\ wrap.apilog = 0

\* the audit write failed after a retried call succeeded
C8_Witness ==
    /\ wrap.pc = "done"
    /\ wrap.audit = "failed"
    /\ Len(wrap.results) = 2
    /\ wrap.out.kind = "return"

(* C24: an audit record is produced exactly once for each wrapper call whose *)
(* wrapped operation completes successfully (given the audit store accepts   *)
(* the write) and none for failed attempts: a call whose attempts all fail   *)
(* creates zero records, a call that succeeds after k failed attempts one.   *)
C24_AuditExactlyOnce ==
    wrap.pc \in {"loop", "done"} =>
        /\ wrap.pc = "loop" => wrap.apilog = 0
        /\ (wrap.pc = "done" /\ wrap.out.kind = "raise") =>
              (wrap.apilog = 0 /\ wrap.audit = "none")
        /\ (wrap.pc = "done" /\ wrap.out.kind = "return") =>
              /\ wrap.audit \in {"written", "failed"}
              /\ wrap.apilog = (IF wrap.audit = "written" THEN 1 ELSE 0)
              /\ Failures(wrap.results) = 1..(Len(wrap.results) - 1)

\* a call that succeeded on its last attempt after failures wrote one record
C24_Witness ==
    /\ wrap.pc = "done"
    /\ wrap.out.kind = "return"
    /\ wrap.max_retries = MaxRetries
    /\ Len(wrap.results) = MaxRetries
    /\ wrap.audit = "written"
    /\ wrap.apilog = 1

---------------------------------------------------------------------------
(* SpecRace: concurrent calls of the crime client or the flood client with *)
(* the same arguments on an empty cache.  A call takes three steps, each    *)
(* atomic: cache.get, requests.get, cache.set; the steps of different       *)
(* callers interleave.                                                      *)

NumCallers == 2

Callers == 1..NumCallers

\* the arguments every caller passes
RaceTimestamp == <<2024, 1, 25>>
RaceCoord == <<51, -1>>

RaceLookups == {"get_crimes_for_location", "get_flood_data_for_location"}

RaceKey(fn) ==
    IF fn = "get_crimes_for_location"
    THEN CrimeKey(NormalizedDate(RaceTimestamp), RaceCoord[2], RaceCoord[1])
    ELSE FloodKey(RaceCoord[1], RaceCoord[2], DEFAULT_DIST)

RaceResponses(fn) ==
    IF fn = "get_crimes_for_location" THEN CrimeResponses ELSE FloodResponses

\* `if cached_crimes:` (line 102) / `if cached_coords:` (line 164)
RaceTruthy(fn, v) ==
    IF fn = "get_crimes_for_location" THEN TruthyList(v) ELSE TruthyDict(v)

\* what the call does from its requests.get on when it has missed the cache
RaceMiss(fn, resp) ==
    IF fn = "get_crimes_for_location"
    THEN get_crimes_for_location(EmptyCache, 0, RaceTimestamp,
                                 RaceCoord[1], RaceCoord[2], resp)
    ELSE get_flood_data_for_location(EmptyCache, 0, RaceCoord[1], RaceCoord[2],
                                     DEFAULT_DIST, resp)

\* a caller that has entered the function
CallerEntered ==
    [pc |-> "get", hit |-> FALSE, asked |-> FALSE, data |-> ReturnNone,
     wrote |-> FALSE, out |-> ReturnNone]

\* cached = cache.get(cache_key); if cached: return cached
CallerGot(c, fn, cached) ==
    IF \E v \in cached : RaceTruthy(fn, v)
    THEN [c EXCEPT !.pc = "done", !.hit = TRUE,
                   !.out = Return(CHOOSE v \in cached : TRUE)]
    ELSE [c EXCEPT !.pc = "request"]

\* response = requests.get(...): an error ends the call, a 200 goes on to the set
CallerFetched(c, fn, resp) ==
    LET out == RaceMiss(fn, resp).out
    IN  IF out.kind = "return"
        THEN [c EXCEPT !.pc = "set", !.asked = TRUE, !.data = out]
        ELSE [c EXCEPT !.pc = "done", !.asked = TRUE, !.out = out]

\* a caller that forgets to return what it stored
CallerStoredReturnsNone(c) ==
    [c EXCEPT !.pc = "done", !.wrote = TRUE]

\* cache.set(cache_key, data, CACHE_TIMEOUT); return data
CallerStored(c) ==
    [c EXCEPT !.pc = "done", !.wrote = TRUE, !.out = c.data]

RaceStart ==
    /\ callers.fn = "none"
    /\ \E fn \in RaceLookups :
         callers' = [fn |-> fn, key |-> RaceKey(fn),
                     who |-> [i \in Callers |-> CallerEntered]]
    /\ UNCHANGED <<cache, now, fetched, lastCall, asmt, wrap, risk, quotes>>

RaceGet(i) ==
    /\ callers.fn # "none"
    /\ callers.who[i].pc = "get"
    /\ callers' = [callers EXCEPT !.who[i] =
                      CallerGot(@, callers.fn, CacheGet(cache, now, callers.key))]
    /\ UNCHANGED <<cache, now, fetched, lastCall, asmt, wrap, risk, quotes>>

RaceRequest(i) ==
    /\ callers.fn # "none"
    /\ callers.who[i].pc = "request"
    /\ \E resp \in RaceResponses(callers.fn) :
         callers' = [callers EXCEPT !.who[i] = CallerFetched(@, callers.fn, resp)]
    /\ UNCHANGED <<cache, now, fetched, lastCall, asmt, wrap, risk, quotes>>

RaceSet(i) ==
    /\ callers.fn # "none"
    /\ callers.who[i].pc = "set"
    /\ cache' = CacheSet(cache, now, callers.key, callers.who[i].data.val,
                         CACHE_TIMEOUT, DEFAULT_VERSION)
    /\ callers' = [callers EXCEPT !.who[i] = CallerStored(@)]
    /\ UNCHANGED <<now, fetched, lastCall, asmt, wrap, risk, quotes>>

RaceStep(i) == RaceGet(i) \/ RaceRequest(i) \/ RaceSet(i)

InitRace ==
    /\ cache = EmptyCache
    /\ now = 0
    /\ fetched = EmptyCache
    /\ lastCall = NoCall
    /\ asmt = AsmtIdle
    /\ wrap = WrapIdle
    /\ risk = RiskIdle
    /\ callers = CallersIdle
    /\ quotes = QuotesIdle

NextRace ==
    \/ RaceStart
    \/ \E i \in Callers : RaceGet(i)
    \/ \E i \in Callers : RaceRequest(i)
    \/ \E i \in Callers : RaceSet(i)

SpecRace == InitRace /\ [][NextRace]_vars

\* the entries the cache holds under the key of the race
RaceEntries == { e \in cache[Prefix(callers.key)] : e.key = callers.key }

AllDone == callers.fn # "none" /\ \A i \in Callers : callers.who[i].pc = "done"

(* C25: under concurrent callers of the same lookup on an uncached key the   *)
(* check-then-set race is tolerated: callers may all miss and all fetch,    *)
(* none waits on another, each caller that gets a 200 returns a fetched      *)
(* value (its own, or on a hit the one another caller stored), and once all *)
(* have finished the cache holds for the key the value one of them wrote.    *)
C25_CheckThenSetRace ==
    callers.fn # "none" =>
        /\ \A i \in Callers :
             LET c == callers.who[i]
             IN  /\ c.pc # "done" => ENABLED RaceStep(i)
                 /\ (c.pc = "done" /\ c.wrote) =>
                        (c.out.kind = "return" /\ c.out.val = c.data.val)
                 /\ (c.pc = "done" /\ c.hit) =>
                        /\ c.out.kind = "return"
                        /\ \E j \in Callers \ {i} :
                             callers.who[j].wrote /\ callers.who[j].data.val = c.out.val
        /\ Cardinality(RaceEntries) <= 1
        /\ \A e \in RaceEntries :
             \E i \in Callers : callers.who[i].wrote /\ callers.who[i].data.val = e.val
        /\ (AllDone /\ \E i \in Callers : callers.who[i].wrote) => RaceEntries # {}

\* both callers missed, both fetched, they got different datasets, and the
\* cache holds the dataset of one of them
C25_Witness ==
    /\ AllDone
    /\ callers.who[1].wrote /\ callers.who[2].wrote
    /\ ~callers.who[1].hit /\ ~callers.who[2].hit
    /\ callers.who[1].out.val # callers.who[2].out.val
    /\ \E e \in RaceEntries : e.val = callers.who[1].out.val

---------------------------------------------------------------------------
(* SpecQuotes: submit_quote (views.py) with QuoteSerializer.validate        *)
(* (serializers.py) against the Quote table.  A row holds the fields the    *)
(* suspicion rule reads, and `at`, the time the row was stored.             *)

MaxQuotes == 4

MaxQuoteTicks == 2

QuoteTickSeconds == 40 * 60

\* suspicion_threshold = 3 (line 154), timedelta(hours=1) (line 155)
suspicion_threshold == 3
ONE_HOUR == 60 * 60

\* postcodes that pass validate_risk_postcode
QuotePostcodes == { <<"E", "1", " ", "6", "A", "N">>, <<"N", "2", " ", "8", "A", "B">> }

\* the timestamp field of a submission: the time of the submission, or a time
\* two hours before or after it
TimestampOffsets == { 0, 0 - 2 * ONE_HOUR, 2 * ONE_HOUR }

\* Quote.objects.filter(risk_postcode = risk_postcode,
\*                      timestamp__gte = one_hour_ago).count()
QuoteCount(table, risk_postcode, one_hour_ago) ==
    Cardinality({ j \in DOMAIN table :
                    /\ table[j].risk_postcode = risk_postcode
                    /\ table[j].timestamp >= one_hour_ago })

\* lines 154-162 of QuoteSerializer.validate, called at time t
Validate(table, t, data) ==
    LET one_hour_ago == t - ONE_HOUR
        quote_count == QuoteCount(table, data.risk_postcode, one_hour_ago)
    IN  IF quote_count >= suspicion_threshold
        THEN [data EXCEPT !.suspicious = TRUE]
        ELSE data

\* submit_quote: serializer.is_valid() runs validate, serializer.save() stores
\* the validated data; suspicious defaults to False (models.py line 34)
SubmitQuote ==
    /\ Len(quotes.table) < MaxQuotes
    /\ \E risk_postcode \in QuotePostcodes, offset \in TimestampOffsets :
         LET data == [risk_postcode |-> risk_postcode, timestamp |-> now + offset,
                      suspicious |-> FALSE, at |-> now]
         IN  quotes' = [quotes EXCEPT !.table =
                           Append(@, Validate(quotes.table, now, data))]
    /\ UNCHANGED <<cache, now, fetched, lastCall, asmt, wrap, risk, callers>>

QuoteTick ==
    /\ now < MaxQuoteTicks * QuoteTickSeconds
    /\ now' = now + QuoteTickSeconds
    /\ UNCHANGED <<cache, fetched, lastCall, asmt, wrap, risk, callers, quotes>>

InitQuotes ==
    /\ cache = EmptyCache
    /\ now = 0
    /\ fetched = EmptyCache
    /\ lastCall = NoCall
    /\ asmt = AsmtIdle
    /\ wrap = WrapIdle
    /\ risk = RiskIdle
    /\ callers = CallersIdle
    /\ quotes = QuotesIdle

NextQuotes ==
    \/ SubmitQuote
    \/ QuoteTick

SpecQuotes == InitQuotes /\ [][NextQuotes]_vars

\* the rows stored before row i with its postcode, in the hour before it
StoredInLastHour(i) ==
    { j \in 1..(i - 1) :
        /\ quotes.table[j].risk_postcode = quotes.table[i].risk_postcode
        /\ quotes.table[i].at - quotes.table[j].at <= ONE_HOUR }

(* C26: a submitted quote is marked suspicious if and only if, when it is    *)
(* validated, the store already holds at least 3 quotes with the same postal *)
(* code within the last hour: after any sequence of submissions the 4th and  *)
(* later quotes for one postal code inside one hour are stored suspicious    *)
(* and the first three are not.                                              *)
C26_SuspiciousIffFourthInHour ==
    \A i \in DOMAIN quotes.table :
        quotes.table[i].suspicious <=>
            (Cardinality(StoredInLastHour(i)) >= suspicion_threshold)

\* every attempt of the wrapped operation terminates: a call that is in its
\* loop goes on to the end of the attempt, by a return or by an exception
WrapProgress == IF wrap.pc = "idle" THEN <<"idle", 0>> ELSE <<wrap.pc, wrap.attempt>>

SpecWrapLive == SpecWrap /\ WF_WrapProgress(AttemptReturns \/ AttemptRaises)

AtMost(n) == IF n > 0 THEN n ELSE 0

\* the bounds of a wrapper call, and what a call with max_retries <= 0 does
WrapperBounded ==
    wrap.pc \in {"loop", "done"} =>
        /\ Len(wrap.results) <= AtMost(wrap.max_retries)
        /\ Len(wrap.sleeps) <= AtMost(wrap.max_retries - 1)
        /\ wrap.max_retries <= 0 =>
              /\ wrap.pc = "done"
              /\ wrap.results = <<>>
              /\ wrap.sleeps = <<>>
              /\ wrap.audit = "none"
              /\ wrap.apilog = 0
              /\ wrap.out.kind = "none"

(* C28: every call of the retry wrapper terminates (given that each attempt  *)
(* terminates) after at most max_retries invocations of the wrapped          *)
(* operation and at most max_retries - 1 sleeps; with max_retries <= 0 the   *)
(* operation is never invoked, no audit record is written, and the wrapper   *)
(* returns None without raising.                                             *)
C28_WrapperTerminates ==
    /\ []WrapperBounded
    /\ (wrap.pc = "loop") ~> (wrap.pc = "done")

\* a call with a negative max_retries has returned None
C28_Witness ==
    /\ wrap.pc = "done"
    /\ wrap.max_retries < 0
    /\ wrap.out.kind = "none"

---------------------------------------------------------------------------
(* SpecHandler: views.getQuote behind log_api_call(max_retries=3,          *)
(* backoff_factor=2).  wrap.handler holds the request and the locals of    *)
(* the running invocation of the view; asmt is its call of                 *)
(* calculate_location_risks.                                               *)

QuoteReferences == {"", "Q1"}

\* line 102: the arguments of the decorator
getQuoteRetries == [max_retries |-> 3, backoff_factor |-> 2]

\* the request as it reaches the wrapper; found and quote say what the Quote
\* table holds under the reference
HandlerIdle(quote_reference, found, quote) ==
    [pc |-> "idle", quote_reference |-> quote_reference, found |-> found,
     quote |-> quote, invocations |-> 0, store |-> 0, out |-> WrapperNone]

\* lines 111-121 and 133-138: a missing quote_reference is answered 400 before
\* the try block; Quote.objects.get raises Quote.DoesNotExist, answered 404
getQuoteBegin(h) ==
    LET h1 == [h EXCEPT !.invocations = @ + 1]
    IN  IF h.quote_reference = ""
        THEN [h1 EXCEPT !.pc = "done", !.out = Return("response 400")]
        ELSE IF ~h.found
        THEN [h1 EXCEPT !.pc = "done", !.store = @ + 1,
                        !.out = Return("response 404")]
        ELSE [h1 EXCEPT !.pc = "risks", !.store = @ + 1]

\* a view without the `except Exception` clause: the error leaves the view
getQuoteEndPropagating(h, location_risk) ==
    IF location_risk.kind = "raise"
    THEN [h EXCEPT !.pc = "done", !.out = Reraise(location_risk.err)]
    ELSE LET risk_value == risk_type(location_risk.val.flood_risk,
                                     location_risk.val.crime_risk)
         IN  IF risk_value.kind = "raise"
             THEN [h EXCEPT !.pc = "done", !.out = Reraise(risk_value.err)]
             ELSE [h EXCEPT !.pc = "done", !.out = Return("response 200")]

\* lines 127-166: location_risk is what calculate_location_risks did; its
\* exception, or that of risk_type, is caught by `except Exception` and
\* answered 500; quote_validity cannot raise; otherwise the quote is
\* serialized and answered 200
getQuoteEnd(h, location_risk) ==
    IF location_risk.kind = "raise"
    THEN [h EXCEPT !.pc = "done", !.out = Return("response 500")]
    ELSE LET risk_value == risk_type(location_risk.val.flood_risk,
                                     location_risk.val.crime_risk)
         IN  IF risk_value.kind = "raise"
             THEN [h EXCEPT !.pc = "done", !.out = Return("response 500")]
             ELSE [h EXCEPT !.pc = "done", !.out = Return("response 200")]

\* the wrapper after an invocation of the view has ended as h.out says: a
\* response is audited and returned, an exception counts as a failed attempt
\* and the view is invoked again while attempts are left
Invoked(w, h, audit_ok) ==
    IF h.out.kind = "raise"
    THEN LET w1 == OnFailure(w, h.out.err)
         IN  [w1 EXCEPT !.handler =
                  IF w1.pc = "loop" THEN [h EXCEPT !.pc = "idle"] ELSE h]
    ELSE [OnSuccess(w, h.out.val, audit_ok) EXCEPT !.handler = h]

\* a GET request arrives: the wrapper is entered
GetQuoteRequest ==
    /\ wrap.pc \in {"idle", "done"}
    /\ \E quote_reference \in QuoteReferences, found \in BOOLEAN,
          postcode \in Postcodes, product_type \in ProductTypes,
          timestamp \in Timestamps :
         LET quote == [risk_postcode |-> postcode, product_type |-> product_type,
                       timestamp |-> timestamp]
         IN  wrap' = WrapperEntered(getQuoteRetries.max_retries,
                                    getQuoteRetries.backoff_factor)
                     @@ [handler |-> HandlerIdle(quote_reference, found, quote)]
    /\ asmt' = AsmtIdle
    /\ UNCHANGED <<cache, now, fetched, lastCall, risk, callers, quotes>>

\* the wrapper invokes the view, which runs up to its call of
\* calculate_location_risks or to an early response
GetQuoteInvoke ==
    /\ wrap.pc = "loop"
    /\ wrap.handler.pc = "idle"
    /\ LET h == getQuoteBegin(wrap.handler)
       IN  IF h.pc = "done"
           THEN /\ \E audit_ok \in BOOLEAN : wrap' = Invoked(wrap, h, audit_ok)
                /\ asmt' = asmt
           ELSE /\ wrap' = [wrap EXCEPT !.handler = h]
                /\ asmt' = Begin(h.quote.risk_postcode, h.quote.product_type,
                                 h.quote.timestamp)
    /\ UNCHANGED <<cache, now, fetched, lastCall, risk, callers, quotes>>

\* calculate_location_risks has ended: the view answers
GetQuoteRespond ==
    /\ wrap.pc = "loop"
    /\ wrap.handler.pc = "risks"
    /\ asmt.pc = "done"
    /\ \E audit_ok \in BOOLEAN :
         wrap' = Invoked(wrap, getQuoteEnd(wrap.handler, asmt.out), audit_ok)
    /\ UNCHANGED <<cache, now, fetched, lastCall, asmt, risk, callers, quotes>>

InitHandler ==
    /\ cache = EmptyCache
    /\ now = 0
    /\ fetched = EmptyCache
    /\ lastCall = NoCall
    /\ asmt = AsmtIdle
    /\ wrap = WrapIdle
    /\ callers = CallersIdle
    /\ quotes = QuotesIdle
    /\ risk = RiskIdle

NextHandler ==
    \/ GetQuoteRequest \/ GetQuoteInvoke
    \/ AssessResolve \/ AssessFlood \/ AssessCrime
    \/ GetQuoteRespond

SpecHandler == InitHandler /\ [][NextHandler]_vars

\* the last call calculate_location_risks made
UpstreamFailed ==
    /\ asmt.pc = "done"
    /\ asmt.calls # <<>>
    /\ LastCall.fn \in SubLookups
    /\ LastCall.out.kind = "raise"

(* C29: behind the wrapper, a failure of the quote lookup or of the risk    *)
(* computation (a failed resolver, flood or crime lookup included) is not   *)
(* retried: the view answers 404 or 500, so the wrapper invokes it once per *)
(* request, does not sleep, and audits that response; a request without     *)
(* quote_reference is answered 400 with no access to the Quote table or to  *)
(* a lookup.                                                                *)
C29_HandlerFailureNotRetried ==
    /\ wrap.pc # "idle" =>
        /\ wrap.handler.invocations <= 1
        /\ Len(wrap.results) <= 1
        /\ wrap.sleeps = <<>>
    /\ wrap.pc = "done" =>
        LET h == wrap.handler
        IN  /\ h.invocations = 1
            /\ wrap.results = <<Returned(h.out.val)>>
            /\ wrap.out = Return(h.out.val)
            /\ wrap.audit \in {"written", "failed"}
            /\ wrap.apilog = (IF wrap.audit = "written" THEN 1 ELSE 0)
            /\ h.quote_reference = "" =>
                /\ h.out.val = "response 400"
                /\ h.store = 0
                /\ asmt = AsmtIdle
            /\ (h.quote_reference # "" /\ ~h.found) =>
                /\ h.out.val = "response 404"
                /\ h.store = 1
                /\ asmt = AsmtIdle
            /\ (h.quote_reference # "" /\ h.found) =>
                /\ h.store = 1
                /\ asmt.pc = "done"
                /\ asmt.out.kind = "raise" => h.out.val = "response 500"
                /\ h.out.val \in {"response 200", "response 500"}

\* a crime, flood or resolver lookup failed on a connection error; the view was
\* invoked once, answered 500, and the response was audited
C29_Witness ==
    /\ wrap.pc = "done"
    /\ UpstreamFailed
    /\ LastCall.out.err = "ConnectionError"
    /\ wrap.handler.out.val = "response 500"
    /\ wrap.handler.invocations = 1
    /\ wrap.apilog = 1

====
